---- MODULE Spec2Model ----
(***************************************************************************)
(* client.py: a sequential driver that logs in, checks the session,       *)
(* uploads a file, logs out and checks the session again, over one        *)
(* requests.Session.  The client is modelled statement by statement; the  *)
(* HTTP server it talks to is the environment.                            *)
(***************************************************************************)
EXTENDS Naturals, Sequences, FiniteSets, TLC

VARIABLES
    prog,      \* the statements being run (main's body, or a harness's calls)
    ip,        \* index in prog of the current statement
    pc,        \* "ready" | "waiting" | "received" | "done" | "failed"
    fault,     \* the exception that ended the run, or "none"
    jar,       \* the cookie held by the requests.Session object
    req,       \* the HTTP request of the current call
    resp,      \* the HTTP response to it
    sent,      \* every HTTP request issued so far, in order
    recv,      \* every HTTP response received so far, as kind and success flag
    out,       \* standard output: the printed lines
    rets,      \* the value returned by each call that returned
    accounts,  \* server: the credentials it accepts, with the display name
    sessions   \* server: session id -> logged-in display name, or NoUser

vars == <<prog, ip, pc, fault, jar, req, resp, sent, recv, out, rets, accounts, sessions>>

-----------------------------------------------------------------------------
(* Module-level data of client.py *)

base_url == "http://localhost:3000/api/v1"

emp_creds ==
    [email |-> "adowley0@myspace.com",
     password |-> "5e884898da28047151d0e56f8dc6292773603d0d6aabbdd62a11ef721d1542d8"]

upload_data == "hello!"
upload_fname == "/hey/h2@!#$%^%$#34535645647*&^(&*68elloword;'F:\"S\""

-----------------------------------------------------------------------------
(* Values of the environment *)

\* Number of calls a harness program makes at most.
MaxCalls == 3

NoCookie == "no-cookie"
NoUser == "no-user"
Sids == {"sid-1"}
Cookies == Sids \cup {NoCookie}

EmpName == "Adowley"
Names == {"", EmpName, "upload_1"}
Msgs == {"ok", "denied"}

\* The bodies a JSON response may carry: a mapping with a name, or without.
Bodies == [name : Names] \cup {[id |-> 1]}

\* Decoded JSON of the API's response shape {success, msg, body?}.
JsonObjects ==
    [success : BOOLEAN, msg : Msgs] \cup [success : BOOLEAN, msg : Msgs, body : Bodies]

NoResp == [kind |-> "none"]
NetError == [kind |-> "neterr"]
HtmlResponses == [kind : {"html"}, set_cookie : Cookies]
JsonResponses == [kind : {"json"}, obj : JsonObjects, set_cookie : Cookies]
TransportFaults == {NetError} \cup [kind : {"html"}, set_cookie : {NoCookie}]
Responses == {NetError} \cup HtmlResponses \cup JsonResponses

NoReq == [method |-> "none"]

\* What the log of responses keeps of one: its kind, or its success flag.
Status(r) == IF r.kind = "json" THEN (IF r.obj.success THEN "True" ELSE "False") ELSE r.kind

-----------------------------------------------------------------------------
(* The HTTP request each function issues through the session `sess` *)

loginRequest(sess, creds) ==
    [method |-> "POST", url |-> base_url \o "/login", cookie |-> sess, json |-> creds]

\* checksess calling requests.get, not sess.get: the request carries no session.
checksessRequest_NoSession(sess) ==
    [method |-> "GET", url |-> base_url \o "/checksess", cookie |-> NoCookie]

\* checksess with logout's request line pasted in.
checksessRequest_Logout(sess) ==
    [method |-> "POST", url |-> base_url \o "/logout", cookie |-> sess]

checksessRequest(sess) ==
    [method |-> "GET", url |-> base_url \o "/checksess", cookie |-> sess]

logoutRequest(sess) ==
    [method |-> "POST", url |-> base_url \o "/logout", cookie |-> sess]

\* upload calling requests.post, not sess.post: the request carries no session.
uploadRequest_NoSession(sess, data, fname) ==
    [method |-> "POST", url |-> base_url \o "/upload", cookie |-> NoCookie,
     files |-> [file |-> <<fname, data>>]]

uploadRequest(sess, data, fname) ==
    [method |-> "POST", url |-> base_url \o "/upload", cookie |-> sess,
     files |-> [file |-> <<fname, data>>]]

Request(stmt, sess) ==
    CASE stmt.fn = "login" -> loginRequest(sess, stmt.creds)
      [] stmt.fn = "checksess" -> checksessRequest(sess)
      [] stmt.fn = "logout" -> logoutRequest(sess)
      [] stmt.fn = "upload" -> uploadRequest(sess, stmt.data, stmt.fname)

\* requests.Session keeps the cookie a response sets; a failed request sets none.
extract_cookies(sess, r) ==
    IF r.kind \in {"json", "html"} /\ r.set_cookie # NoCookie THEN r.set_cookie ELSE sess

-----------------------------------------------------------------------------
(* The body of each function once sess.post / sess.get has come back with r. *)
(* A result is what was printed, and the value returned or exception raised. *)

Returned(printed, val) == [exc |-> "none", printed |-> printed, val |-> val]
Raised(exc, printed) == [exc |-> exc, printed |-> printed, val |-> "None"]

PyBool(b) == IF b THEN "True" ELSE "False"

\* res = json.loads(sess.post(...).content): the exception it raises, if any.
json_loads(r) ==
    IF r.kind = "neterr" THEN "ConnectionError"
    ELSE IF r.kind # "json" THEN "JSONDecodeError"
    ELSE "none"

HasName(res) == "body" \in DOMAIN res /\ "name" \in DOMAIN res.body

\* login returning res, a non-empty dict and so true, instead of res['success'].
login_ReturnsResponse(r) ==
    IF json_loads(r) # "none" THEN Raised(json_loads(r), <<>>)
    ELSE Returned(<<r.obj.msg>>, "True")

login(r) ==
    IF json_loads(r) # "none" THEN Raised(json_loads(r), <<>>)
    ELSE Returned(<<r.obj.msg>>, PyBool(r.obj.success))

checksess(r) ==
    IF json_loads(r) # "none" THEN Raised(json_loads(r), <<>>)
    ELSE IF r.obj.success
         THEN IF HasName(r.obj)
              THEN Returned(<<"You are logged in as: " \o r.obj.body.name>>,
                            PyBool(r.obj.success))
              ELSE Raised("KeyError", <<>>)
         ELSE Returned(<<"You are not logged in.">>, PyBool(r.obj.success))

logout(r) ==
    IF json_loads(r) # "none" THEN Raised(json_loads(r), <<>>)
    ELSE Returned(<<r.obj.msg>>, "None")

upload(r) ==
    IF json_loads(r) # "none" THEN Raised(json_loads(r), <<>>)
    ELSE IF HasName(r.obj)
         THEN Returned(<<r.obj.msg, r.obj.body.name>>, "None")
         ELSE Raised("KeyError", <<r.obj.msg>>)

-----------------------------------------------------------------------------
(* main: its statements in order, each with the assertion made on the call *)

\* main without the assert on login.
main_NoLoginAssert ==
    << [fn |-> "login", creds |-> emp_creds, expect |-> "none"],
       [fn |-> "checksess", expect |-> "assert"],
       [fn |-> "upload", data |-> upload_data, fname |-> upload_fname, expect |-> "none"],
       [fn |-> "logout", expect |-> "none"],
       [fn |-> "checksess", expect |-> "assert not"] >>

\* main with the last assertion missing its `not`.
main_AssertLoggedIn ==
    << [fn |-> "login", creds |-> emp_creds, expect |-> "assert"],
       [fn |-> "checksess", expect |-> "assert"],
       [fn |-> "upload", data |-> upload_data, fname |-> upload_fname, expect |-> "none"],
       [fn |-> "logout", expect |-> "none"],
       [fn |-> "checksess", expect |-> "assert"] >>

\* main without the call of logout.
main_NoLogout ==
    << [fn |-> "login", creds |-> emp_creds, expect |-> "assert"],
       [fn |-> "checksess", expect |-> "assert"],
       [fn |-> "upload", data |-> upload_data, fname |-> upload_fname, expect |-> "none"],
       [fn |-> "checksess", expect |-> "assert not"] >>

\* main with logout and upload in each other's place.
main_LogoutBeforeUpload ==
    << [fn |-> "login", creds |-> emp_creds, expect |-> "assert"],
       [fn |-> "checksess", expect |-> "assert"],
       [fn |-> "logout", expect |-> "none"],
       [fn |-> "upload", data |-> upload_data, fname |-> upload_fname, expect |-> "none"],
       [fn |-> "checksess", expect |-> "assert not"] >>

main ==
    << [fn |-> "login", creds |-> emp_creds, expect |-> "assert"],
       [fn |-> "checksess", expect |-> "assert"],
       [fn |-> "upload", data |-> upload_data, fname |-> upload_fname, expect |-> "none"],
       [fn |-> "logout", expect |-> "none"],
       [fn |-> "checksess", expect |-> "assert not"] >>

\* Assertions compiled away (python -O): every statement passes.
AssertPasses_Optimized(expect, val) == TRUE

\* `assert v`, `assert not v`, or the bare call: does the statement pass?
AssertPasses(expect, val) ==
    CASE expect = "assert" -> val = "True"
      [] expect = "assert not" -> val # "True"
      [] expect = "none" -> TRUE

\* A failed connection caught and the call made again.
Raise_Retry(exc) ==
    /\ pc' = IF exc = "ConnectionError" THEN "ready" ELSE "failed"
    /\ fault' = IF exc = "ConnectionError" THEN fault ELSE exc
    /\ ip' = ip

\* An exception nobody catches ends the script.
Raise(exc) ==
    /\ pc' = "failed"
    /\ fault' = exc
    /\ ip' = ip

\* The statement is over: the next one, or the end of the program.
Advance ==
    /\ ip' = ip + 1
    /\ pc' = IF ip + 1 > Len(prog) THEN "done" ELSE "ready"
    /\ fault' = fault

\* What a statement does with the result of its call.
Finish(stmt, result) ==
    /\ out' = out \o result.printed
    /\ jar' = extract_cookies(jar, resp)
    /\ IF result.exc # "none"
       THEN Raise(result.exc) /\ rets' = rets
       ELSE /\ rets' = Append(rets, [fn |-> stmt.fn, val |-> result.val])
            /\ IF AssertPasses(stmt.expect, result.val)
               THEN Advance
               ELSE Raise("AssertionError")
    /\ UNCHANGED <<prog, req, resp, sent, recv, accounts, sessions>>

-----------------------------------------------------------------------------
(* Client actions *)

\* The current statement's function issues its one HTTP request and blocks.
Send ==
    /\ pc = "ready"
    /\ ip <= Len(prog)
    /\ req' = Request(prog[ip], jar)
    /\ sent' = Append(sent, req')
    /\ resp' = NoResp
    /\ pc' = "waiting"
    /\ UNCHANGED <<prog, ip, fault, jar, recv, out, rets, accounts, sessions>>

Login ==
    /\ pc = "received"
    /\ prog[ip].fn = "login"
    /\ Finish(prog[ip], login(resp))

Checksess ==
    /\ pc = "received"
    /\ prog[ip].fn = "checksess"
    /\ Finish(prog[ip], checksess(resp))

Logout ==
    /\ pc = "received"
    /\ prog[ip].fn = "logout"
    /\ Finish(prog[ip], logout(resp))

Upload ==
    /\ pc = "received"
    /\ prog[ip].fn = "upload"
    /\ Finish(prog[ip], upload(resp))

-----------------------------------------------------------------------------
(* The environment: any server at all *)

ServeAny ==
    /\ pc = "waiting"
    /\ resp' \in Responses
    /\ recv' = Append(recv, Status(resp'))
    /\ pc' = "received"
    /\ UNCHANGED <<prog, ip, fault, jar, req, sent, out, rets, accounts, sessions>>

-----------------------------------------------------------------------------
(* The environment: the server the API describes.  POST /login opens the   *)
(* session for credentials it accepts, GET /checksess reports the session, *)
(* POST /logout closes it, POST /upload stores a file for a logged-in      *)
(* session.  What the API leaves open is left open here.                   *)

Json(obj, c) == [kind |-> "json", obj |-> obj, set_cookie |-> c]

Authenticated(rq, ss) == rq.cookie \in Sids /\ ss[rq.cookie] # NoUser

ServerLogin(rq, ss) ==
    IF rq.json \in DOMAIN accounts
    THEN {[resp |-> Json([success |-> TRUE, msg |-> m], s),
           sessions |-> [ss EXCEPT ![s] = accounts[rq.json]]] : m \in Msgs, s \in Sids}
    ELSE {[resp |-> Json([success |-> FALSE, msg |-> m], NoCookie),
           sessions |-> ss] : m \in Msgs}

ServerChecksess(rq, ss) ==
    IF Authenticated(rq, ss)
    THEN {[resp |-> Json([success |-> TRUE, msg |-> m, body |-> [name |-> ss[rq.cookie]]],
                         NoCookie),
           sessions |-> ss] : m \in Msgs}
    ELSE {[resp |-> Json([success |-> FALSE, msg |-> m], NoCookie),
           sessions |-> ss] : m \in Msgs}

ServerLogout(rq, ss) ==
    {[resp |-> Json([success |-> b, msg |-> m], NoCookie),
      sessions |-> IF rq.cookie \in Sids THEN [ss EXCEPT ![rq.cookie] = NoUser] ELSE ss]
        : b \in BOOLEAN, m \in Msgs}

ServerUpload(rq, ss) ==
    IF Authenticated(rq, ss)
    THEN {[resp |-> Json([success |-> TRUE, msg |-> m, body |-> [name |-> n]], NoCookie),
           sessions |-> ss] : m \in Msgs, n \in Names \ {""}}
    ELSE {[resp |-> Json(o, NoCookie), sessions |-> ss] : o \in JsonObjects}

NotFound(rq, ss) == {[resp |-> [kind |-> "html", set_cookie |-> NoCookie], sessions |-> ss]}

Handle(rq, ss) ==
    CASE rq.method = "POST" /\ rq.url = base_url \o "/login" -> ServerLogin(rq, ss)
      [] rq.method = "GET" /\ rq.url = base_url \o "/checksess" -> ServerChecksess(rq, ss)
      [] rq.method = "POST" /\ rq.url = base_url \o "/logout" -> ServerLogout(rq, ss)
      [] rq.method = "POST" /\ rq.url = base_url \o "/upload" -> ServerUpload(rq, ss)
      [] OTHER -> NotFound(rq, ss)

\* The server answers; or the transport fails, the request handled or lost.
Serve ==
    /\ pc = "waiting"
    /\ \/ \E h \in Handle(req, sessions) :
            /\ resp' = h.resp
            /\ sessions' = h.sessions
       \/ /\ resp' \in TransportFaults
          /\ sessions' \in {sessions} \cup {h.sessions : h \in Handle(req, sessions)}
    /\ recv' = Append(recv, Status(resp'))
    /\ pc' = "received"
    /\ UNCHANGED <<prog, ip, fault, jar, req, sent, out, rets, accounts>>

-----------------------------------------------------------------------------

NoSessions == [s \in Sids |-> NoUser]

InitClient ==
    /\ ip = 1
    /\ pc = "ready"
    /\ fault = "none"
    /\ jar = NoCookie
    /\ req = NoReq
    /\ resp = NoResp
    /\ sent = <<>>
    /\ recv = <<>>
    /\ out = <<>>
    /\ rets = <<>>

InitServer ==
    /\ accounts \in {[c \in {emp_creds} |-> EmpName], [c \in {} |-> EmpName]}
    /\ sessions = NoSessions

\* main() run from the top.
Init ==
    /\ prog = main
    /\ InitClient
    /\ InitServer

\* The four functions called directly, in any order, with no assertion.
Calls ==
    {[fn |-> "login", creds |-> emp_creds, expect |-> "none"],
     [fn |-> "checksess", expect |-> "none"],
     [fn |-> "upload", data |-> upload_data, fname |-> upload_fname, expect |-> "none"],
     [fn |-> "logout", expect |-> "none"]}

Programs == UNION {[1..n -> Calls] : n \in 1..MaxCalls}

InitAPI ==
    /\ prog \in Programs
    /\ InitClient
    /\ InitServer

Client == Send \/ Login \/ Checksess \/ Logout \/ Upload

Next == Client \/ ServeAny

NextServer == Client \/ Serve

\* main against any server whatever.
Spec == Init /\ [][Next]_vars

\* main against the server the API describes.
SpecServer == Init /\ [][NextServer]_vars

\* Any short sequence of calls against the server the API describes.
SpecAPI == InitAPI /\ [][NextServer]_vars

-----------------------------------------------------------------------------
(* Properties *)

Prefix(s, t) == Len(s) <= Len(t) /\ \A i \in 1..Len(s) : s[i] = t[i]

\* What the calls of checksess returned, in order.
Observed ==
    LET cs == SelectSeq(rets, LAMBDA r : r.fn = "checksess")
    IN  [i \in 1..Len(cs) |-> cs[i].val]

Endpoint(rq) == <<rq.method, rq.url>>

Endpoints == [i \in 1..Len(sent) |-> Endpoint(sent[i])]

MainOrder ==
    << <<"POST", base_url \o "/login">>, <<"GET", base_url \o "/checksess">>,
       <<"POST", base_url \o "/upload">>, <<"POST", base_url \o "/logout">>,
       <<"GET", base_url \o "/checksess">> >>

CountSent(e) == Cardinality({i \in 1..Len(sent) : Endpoint(sent[i]) = e})

\* The statements whose call has been started.
CallsStarted == IF pc \in {"ready", "done"} THEN ip - 1 ELSE ip

\* The run has gone past statement ip - 1, whose response resp still is.
Proceeded == pc \in {"ready", "done"} /\ ip > 1

\* C1: against the server the API describes, once login has returned true the
\* first checksess, when it gets an answer, returns true and prints the name
\* of the account logged in; it fails only by a transport fault, and main
\* never goes past it on a false result.
C1_LoginThenSession ==
    /\ (Len(rets) >= 2 /\ rets[1].val = "True") =>
          /\ rets[2] = [fn |-> "checksess", val |-> "True"]
          /\ out[2] = "You are logged in as: " \o EmpName
    /\ (ip = 2 /\ pc = "failed") => fault \in {"ConnectionError", "JSONDecodeError"}
    /\ ip > 2 => rets[2].val = "True"

C1_Witness ==
    /\ ip = 3
    /\ rets = <<[fn |-> "login", val |-> "True"], [fn |-> "checksess", val |-> "True"]>>

\* C2: whenever main ends normally, the checksess made after logout returned
\* false, whatever success flag the logout response had.
C2_LoggedOutAtEnd ==
    pc = "done" =>
        /\ Len(rets) = 5
        /\ rets[4].fn = "logout"
        /\ rets[5] = [fn |-> "checksess", val |-> "False"]

C2_Witness == pc = "done" /\ recv[4] = "False" /\ rets[5].val = "False"

\* C3: against the server the API describes, the results of checksess in a
\* run are true, then false: never a true after the logout, and both of them
\* in a run that ends normally.
C3_TrueThenFalse ==
    /\ Prefix(Observed, <<"True", "False">>)
    /\ pc = "done" => Observed = <<"True", "False">>

C3_Witness == pc = "done" /\ Observed = <<"True", "False">> /\ Len(sent) = 5

\* C4: the requests go out in main's order, login, checksess, upload, logout,
\* checksess; a request is out only while its statement waits, and the next
\* one goes out only when every response so far has been received and its
\* call has returned.
C4_LinearOrder ==
    /\ Prefix(Endpoints, MainOrder)
    /\ Len(sent) = CallsStarted
    /\ Len(recv) = IF pc = "waiting" THEN Len(sent) - 1 ELSE Len(sent)
    /\ pc = "ready" => Len(rets) = Len(sent)

C4_Witness == pc = "done" /\ Endpoints = MainOrder /\ Len(recv) = 5

\* C5: a login response with success false stops the script at main's
\* assertion: the login request stays the only request of the run.
C5_LoginFailureStops ==
    (Len(recv) >= 1 /\ recv[1] = "False") =>
        /\ pc \in {"received", "failed"}
        /\ ip = 1
        /\ Len(sent) = 1
        /\ pc = "failed" => fault = "AssertionError"

C5_Witness == pc = "failed" /\ recv = <<"False">> /\ fault = "AssertionError"

\* The responses the five calls of main are written to expect: JSON, with
\* success true, except for the last checksess, where it is false.
Unexpected(stmt, r) ==
    \/ r.kind # "json"
    \/ stmt.expect # "assert not" /\ ~r.obj.success
    \/ stmt.expect = "assert not" /\ r.obj.success

\* The responses that do end the run at the statement that receives them.
Stopping(stmt, r) ==
    \/ r.kind # "json"
    \/ stmt.expect = "assert" /\ ~r.obj.success
    \/ stmt.expect = "assert not" /\ r.obj.success
    \/ stmt.fn = "upload" /\ ~HasName(r.obj)
    \/ stmt.fn = "checksess" /\ r.obj.success /\ ~HasName(r.obj)

\* C6 as stated: main never goes on to the next operation after a response
\* with an unexpected success flag, a network error or a non-JSON body.
C6_AnyViolationStops == Proceeded => ~Unexpected(prog[ip - 1], resp)

\* C6 as amended: a network error, a non-JSON body, success false from login
\* or the first checksess, success true from the last checksess, or a
\* response without the body.name its call reads ends the run at once, and
\* nothing else does: success false from upload or logout is not looked at.
C6_StoppingResponses ==
    /\ Proceeded => ~Stopping(prog[ip - 1], resp)
    /\ pc = "failed" => Stopping(prog[ip], resp) /\ Len(sent) = ip

C6_Witness == pc = "failed" /\ ip = 4 /\ resp.kind = "html" /\ Len(sent) = 4

\* C7: every call started has sent exactly one request, failed or not, so a
\* run has at most one login, one upload, one logout and two checksess
\* requests.
C7_NoRetries ==
    /\ Len(sent) = CallsStarted
    /\ CountSent(<<"POST", base_url \o "/login">>) <= 1
    /\ CountSent(<<"POST", base_url \o "/upload">>) <= 1
    /\ CountSent(<<"POST", base_url \o "/logout">>) <= 1
    /\ CountSent(<<"GET", base_url \o "/checksess">>) <= 2

C7_Witness ==
    /\ pc = "failed"
    /\ fault = "ConnectionError"
    /\ recv = <<"True", "neterr">>
    /\ Len(sent) = 2

\* Two calls of checksess in a row, both returned, returned the same.
SameInARow ==
    \A i \in 1..Len(rets) :
        (i > 1 /\ prog[i - 1].fn = "checksess" /\ prog[i].fn = "checksess") =>
            rets[i - 1].val = rets[i].val

\* C8: against the server the API describes, no step of a call of checksess
\* changes the session, on the server or in the client's cookie, and two
\* calls of checksess in a row return the same result.
C8_ChecksessKeepsSession ==
    /\ []SameInARow
    /\ [][(ip <= Len(prog) /\ prog[ip].fn = "checksess") =>
              UNCHANGED <<sessions, jar>>]_vars

C8_Witness ==
    /\ Len(rets) = 3
    /\ rets[2] = [fn |-> "checksess", val |-> "True"]
    /\ rets[3] = [fn |-> "checksess", val |-> "True"]

C10_LoginReturnsFlag ==
    Len(rets) >= 1 =>
        /\ rets[1].fn = "login"
        /\ rets[1].val = recv[1]
        /\ rets[1].val = PyBool(emp_creds \in DOMAIN accounts)
        /\ rets[1].val = "False" =>
              /\ pc = "failed"
              /\ fault = "AssertionError"
              /\ sessions = NoSessions
              /\ jar = NoCookie
              /\ Len(sent) = 1

C10_Witness ==
    /\ rets = <<[fn |-> "login", val |-> "False"]>>
    /\ pc = "failed"
    /\ emp_creds \notin DOMAIN accounts

====
